---- MODULE Spec2Model ----
(***************************************************************************)
(* A model of the job-state, checkpoint-reconstruction and remote          *)
(* synchronisation commands of automacs (amx/cli.py): serial_number,       *)
(* upload, download and hardstart, together with the state document        *)
(* state.json they read and write (runner/loadstate.py).                   *)
(*                                                                         *)
(* A state document is a function from key strings to values; an absent    *)
(* key is a key outside the DOMAIN.  A path is a pair <<directory, name>>; *)
(* the job's root directory is "".                                         *)
(***************************************************************************)
EXTENDS Integers, Sequences, FiniteSets, TLC

VARIABLES
    has_state_json,   \* os.path.isfile('state.json')
    state_json,       \* the document in state.json (<<>> when there is no file)
    has_remote,       \* the remote copy of the job holds a state.json
    remote_json,      \* the document in the remote state.json
    dirs,             \* the directories of the job's root: name -> mtime
    files,            \* the regular files other than state.json: path -> mtime
    uploads_txt,      \* the lines of uploads.txt, a set of paths
    now,              \* the wall clock in minutes, as make_timestamp reads it
    amx_state,        \* amx.state of the running command
    state_merge,      \* download's local state_merge
    pc,               \* the position of the running command, "idle" when none runs
    op,               \* the command that runs, or ran last
    sure,             \* the command's sure argument
    bulk,             \* upload's bulk argument
    returncode,       \* p.returncode of the last process the command started
    exitcode,         \* the exit status of the command that ran last
    pre_has,          \* has_state_json when the command started
    pre_json,         \* state_json when the command started
    log,              \* what the command did so far: processes, prompts, saves
    ops,              \* the number of commands started
    clean,            \* every upload so far ran a real transfer that exited 0
    mc,               \* the machine configuration gmx_get_machine_config returns
    overwrite,        \* cluster's overwrite argument
    content,          \* the contents of the scripts that cluster writes: path -> text
    text,             \* cluster's head: the text the token substitution works on
    settings,         \* cluster's settings table
    order             \* the order in which the machine configuration iterates

vars == << has_state_json, state_json, has_remote, remote_json, dirs, files,
           uploads_txt, now, amx_state, state_merge, pc, op, sure, bulk,
           returncode, exitcode, pre_has, pre_json, log, ops, clean,
           mc, overwrite, content, text, settings, order >>

\* what upload, download and hardstart leave alone
clustervars == << mc, overwrite, content, text, settings, order >>

-----------------------------------------------------------------------------
(* Bounds *)

\* random.randint(0,10**9) draws from 0..MaxSerial
MaxSerial == 1
\* the clock stops at MaxTime
MaxTime == 1
\* at most MaxOps commands are started
MaxOps == 3

-----------------------------------------------------------------------------
(* Documents *)

EmptyDoc == << >>

Has(d, k) == k \in DOMAIN d

Get(d, k, default) == IF Has(d, k) THEN d[k] ELSE default

Set(d, k, v) == [x \in (DOMAIN d) \cup {k} |-> IF x = k THEN v ELSE d[x]]

\* the tool paths the external resolver returns
GmxPaths == [mdrun |-> "mdrun", tpbconv |-> "tpbconv"]

Flags(s, cpo) == ("-s" :> s) @@ ("-cpo" :> cpo)

-----------------------------------------------------------------------------
(* The file system *)

Root == ""

StepDirs == {"s01-a", "s02-b"}

\* os.path.join(dn,'')
JoinSlash(dn) ==
    CASE dn = "s01-a" -> "s01-a/"
      [] dn = "s02-b" -> "s02-b/"
      [] OTHER -> dn

CptNames == {"md.part0001.cpt", "md.part0002.cpt"}
TprNames == {"md.part0001.tpr"}
\* a file the glob *.tpr finds and the pattern md\.part\d{4}\.tpr rejects
PlainNames == {"topol.tpr"}

\* glob(here/*.suf) filtered by re.match('md\.part\d{4}\.suf',basename)
PartFiles(here, suf) ==
    { p \in DOMAIN files :
        /\ p[1] = here
        /\ p[2] \in (IF suf = "cpt" THEN CptNames ELSE TprNames) }

IsFile(p) == p \in DOMAIN files

\* the elements of S that sorted(S,key=mtime)[-1] can return: the sort is
\* stable and glob's order is arbitrary, so any element of greatest mtime
Latest(S, mt) == { x \in S : \A y \in S : mt[y] <= mt[x] }

-----------------------------------------------------------------------------
(* The state store *)

\* runner/loadstate.py: amx.state as a command finds it after import
LoadState == IF has_state_json THEN state_json ELSE EmptyDoc

\* runner.states.statesave(state): the whole document replaces state.json
StateSave(st) ==
    /\ has_state_json' = TRUE
    /\ state_json' = st

\* gmx_get_last_call(name,this_state=st): the indices of the records of the
\* command name in history_gmx; the call returns the last one and raises
\* when there is none
CallsOf(st, name) ==
    { i \in 1..Len(Get(st, "history_gmx", << >>)) : st["history_gmx"][i].call = name }

LastCall(st, name) ==
    LET I == CallsOf(st, name)
    IN  st["history_gmx"][CHOOSE i \in I : \A j \in I : j <= i]

\* make_timestamp(): the clock at a resolution of one minute
MakeTimestamp == now

-----------------------------------------------------------------------------
(* What a command leaves behind *)

Event(e, rc) == [ev |-> e, rc |-> rc]

\* the prompt got the answer ans, which the command took as e
Answered(e, ans) == [ev |-> e, rc |-> 0, ans |-> ans]

Logged(e) == { i \in 1..Len(log) : log[i].ev = e }

\* the command ends with exit status code
Finish(code) ==
    /\ pc' = "idle"
    /\ exitcode' = code

\* the command is under way at position p and has no exit status yet
Enter(p) ==
    /\ pc' = p
    /\ exitcode' = -1

\* a command starts: it imports amx, which loads the state
Start(name, s, b) ==
    /\ pc = "idle"
    /\ ops < MaxOps
    /\ ops' = ops + 1
    /\ op' = name
    /\ sure' = s
    /\ bulk' = b
    /\ pre_has' = has_state_json
    /\ pre_json' = state_json
    /\ returncode' = -1
    /\ UNCHANGED << clean, clustervars >>

-----------------------------------------------------------------------------
(* serial_number *)

\* "if not serial": no serial key, or a serial that is falsy
NeedsSerial(st) == ~ Has(st, "serial") \/ st["serial"] = 0

\* amx.state after serial_number() drew r
WithSerial(st, r) == IF NeedsSerial(st) THEN Set(st, "serial", r) ELSE st

\* the values random.randint(0,10**9) can return
SerialValues == 0..MaxSerial

\* serial_number() on amx.state = st in a command whose log is lg: a serial
\* is drawn and saved with state_set_and_save when "not serial"
SerialNumber(st, lg) ==
    \E r \in SerialValues :
        /\ amx_state' = WithSerial(st, r)
        /\ IF NeedsSerial(st)
             THEN /\ StateSave(WithSerial(st, r))
                  /\ log' = Append(lg, Event("save", 0))
             ELSE /\ UNCHANGED << has_state_json, state_json >>
                  /\ log' = lg

-----------------------------------------------------------------------------
(* upload *)

\* state_merge in a command that has no such variable
NoMerge == [upload |-> [to |-> "", when |-> 0], upload_history |-> << >>]

\* '%s:%s/%s'%(alias,path,cwd) for the alias hostA, the default path and the
\* job's directory
Destination == "hostA:~/job"

\* the answers the prompt can get
Answers == {"", "y", "N", "no"}

\* ans[:1]
FirstChar(ans) ==
    CASE ans = "yes" -> "y"
      [] ans = "no" -> "n"
      [] OTHER -> ans

\* the test with the empty answer taken as a yes
ProceedUnlessNo(ans) == FirstChar(ans) \notin {"n", "N"}

\* ans[:1] not in 'nN': Python's "in" on strings is the substring test, and
\* the empty string is a substring of every string
Proceed(ans) == FirstChar(ans) \notin {"", "n", "N"}

\* the files of the last mdrun: last_step + flags['-s'], last_step + flags['-cpo']
RestartFns(st) ==
    LET last_mdrun == LastCall(st, "mdrun")
    IN  { << st["here"], last_mdrun.flags["-s"] >>,
          << st["here"], last_mdrun.flags["-cpo"] >> }

\* the cluster scripts that are already in the step directory
ClusterFns(st) ==
    { fn \in { << st["here"], "script-continue.sh" >>,
               << st["here"], "cluster-continue.sh" >> } : IsFile(fn) }

\* the test of line 226 left out
AllPresentUntested(fns) == TRUE

\* all([os.path.isfile(fn) for fn in restart_fns])
AllPresent(fns) == \A fn \in fns : IsFile(fn)

\* the defaults list: it is written to uploads.txt and never tested
DefaultFns ==
    { << Root, "makefile" >>, << Root, "config.py" >>, << Root, "state.json" >> }
        \cup { fn \in { << Root, "gromacs_config.py" >> } : IsFile(fn) }

UploadsTxt == << Root, "uploads.txt" >>

\* amx.state['here'] and the two flags of the last mdrun can be read
UploadReadable(st) ==
    /\ Has(st, "here")
    /\ CallsOf(st, "mdrun") # {}
    /\ {"-s", "-cpo"} \subseteq DOMAIN LastCall(st, "mdrun").flags

\* lines 213-239: the serial, the file list and its test
UploadStart(s, b) ==
    /\ Start("upload", s, b)
    /\ SerialNumber(LoadState, << >>)
    /\ state_merge' = NoMerge
    /\ UNCHANGED << has_remote, remote_json, dirs, now >>
    /\ LET st == amx_state'
       IN  IF UploadReadable(st) /\ AllPresent(RestartFns(st) \cup ClusterFns(st))
             THEN /\ uploads_txt' = RestartFns(st) \cup ClusterFns(st) \cup DefaultFns
                  /\ files' = (UploadsTxt :> 1) @@ files
                  /\ Enter(IF s THEN "up_confirm" ELSE "up_dry")
             ELSE /\ Finish(1)
                  /\ UNCHANGED << uploads_txt, files >>

\* lines 240-246: the dry run
UploadDryRun ==
    /\ UNCHANGED clustervars
    /\ pc = "up_dry"
    /\ \E rc \in {0, 1} :
        /\ returncode' = rc
        /\ log' = Append(log, Event("dry", rc))
    /\ pc' = "up_confirm"
    /\ UNCHANGED << has_state_json, state_json, has_remote, remote_json, dirs,
                    files, uploads_txt, now, amx_state, state_merge, op, sure,
                    bulk, exitcode, pre_has, pre_json, ops, clean >>

\* what the real rsync of upload leaves on the remote host: state.json is in
\* the list, so a run that exits 0 has copied it; a failed run may have
RealPush(rc) ==
    \/ /\ has_state_json
       /\ has_remote' = TRUE
       /\ remote_json' = state_json
    \/ /\ rc # 0
       /\ UNCHANGED << has_remote, remote_json >>

\* os.remove('uploads.txt')
Remove(p) == [q \in (DOMAIN files) \ {p} |-> files[q]]

\* lines 247-255: the prompt and the real transfer
UploadTransfer ==
    /\ UNCHANGED clustervars
    /\ pc = "up_confirm"
    /\ \E ans \in Answers :
        IF sure \/ Proceed(ans)
          THEN \E rc \in {0, 1} :
                /\ returncode' = rc
                /\ log' = log \o (IF sure THEN << >> ELSE << Answered("yes", ans) >>)
                              \o << Event("real", rc) >>
                /\ RealPush(rc)
                /\ files' = IF bulk THEN files ELSE Remove(UploadsTxt)
                /\ clean' = (clean /\ rc = 0)
          ELSE /\ log' = Append(log, Answered("no", ans))
               /\ clean' = FALSE
               /\ UNCHANGED << returncode, has_remote, remote_json, files >>
    /\ pc' = "up_record"
    /\ UNCHANGED << has_state_json, state_json, dirs, uploads_txt, now, amx_state,
                    state_merge, op, sure, bulk, exitcode, pre_has, pre_json, ops >>

\* line 256 without the test of the exit status
ShouldRecordAnyStatus(rc, last_step) == last_step # ""

\* line 256: p.returncode == 0 and last_step
ShouldRecord(rc, last_step) == rc = 0 /\ last_step # ""

\* lines 256-261 and 265-267: the upload record, or the failure
UploadRecord ==
    /\ UNCHANGED clustervars
    /\ pc = "up_record"
    /\ IF ShouldRecord(returncode, amx_state["here"])
         THEN LET this_upload == [to |-> Destination, when |-> MakeTimestamp]
              IN  /\ amx_state' = Set(amx_state, "upload", this_upload)
                  /\ StateSave(amx_state')
                  /\ log' = Append(log, Event("save", 0))
                  /\ pc' = "up_history"
                  /\ UNCHANGED exitcode
         ELSE /\ Finish(IF returncode # 0 THEN 1 ELSE 0)
              /\ UNCHANGED << amx_state, has_state_json, state_json, log >>
    /\ UNCHANGED << has_remote, remote_json, dirs, files, uploads_txt, now,
                    state_merge, op, sure, bulk, returncode, pre_has, pre_json, ops, clean >>

\* lines 262-264: the upload history
UploadHistory ==
    /\ UNCHANGED clustervars
    /\ pc = "up_history"
    /\ LET upload_history == Get(amx_state, "upload_history", << >>)
       IN  amx_state' = Set(amx_state, "upload_history",
                            Append(upload_history, amx_state["upload"]))
    /\ StateSave(amx_state')
    /\ log' = Append(log, Event("save", 0))
    /\ Finish(0)
    /\ UNCHANGED << has_remote, remote_json, dirs, files, uploads_txt, now,
                    state_merge, op, sure, bulk, returncode, pre_has, pre_json, ops, clean >>

-----------------------------------------------------------------------------
(* download *)

\* line 274: 'upload' in amx.state
HasPriorUpload(st) == Has(st, "upload")

\* lines 276-278: state_merge; its upload_history is the list object of
\* amx.state when amx.state has one, and a fresh list otherwise
StateMerge(st) ==
    [upload |-> st["upload"], upload_history |-> Get(st, "upload_history", << >>)]

\* download with serial_number() called ahead of the test of line 274
DownloadStartSerialFirst(s) ==
    /\ Start("download", s, FALSE)
    /\ UNCHANGED << has_remote, remote_json, dirs, files, uploads_txt, now >>
    /\ SerialNumber(LoadState, << >>)
    /\ IF HasPriorUpload(LoadState)
         THEN /\ state_merge' = StateMerge(LoadState)
              /\ Enter(IF s THEN "dl_confirm" ELSE "dl_dry")
         ELSE /\ Finish(1)
              /\ UNCHANGED state_merge

\* lines 273-281: the test for a prior upload, state_merge and the serial
DownloadStart(s) ==
    /\ Start("download", s, FALSE)
    /\ UNCHANGED << has_remote, remote_json, dirs, files, uploads_txt, now >>
    /\ IF HasPriorUpload(LoadState)
         THEN /\ state_merge' = StateMerge(LoadState)
              /\ SerialNumber(LoadState, << >>)
              /\ Enter(IF s THEN "dl_confirm" ELSE "dl_dry")
         ELSE /\ amx_state' = LoadState
              /\ log' = << >>
              /\ Finish(1)
              /\ UNCHANGED << has_state_json, state_json, state_merge >>

\* lines 283-288: the dry run; a nonzero status raises, and the handler of
\* lines 308-314 exits with status 1
DownloadDryRun ==
    /\ UNCHANGED clustervars
    /\ pc = "dl_dry"
    /\ \E rc \in {0, 1} :
        /\ returncode' = rc
        /\ log' = Append(log, Event("dry", rc))
        /\ IF rc # 0 THEN Finish(1) ELSE pc' = "dl_confirm" /\ UNCHANGED exitcode
    /\ UNCHANGED << has_state_json, state_json, has_remote, remote_json, dirs,
                    files, uploads_txt, now, amx_state, state_merge, op, sure,
                    bulk, pre_has, pre_json, ops, clean >>

\* the record of the continuation the job may have run on the remote host
RemoteCall == [call |-> "mdrun", flags |-> Flags("md.part0001.tpr", "md.part0002.cpt")]

\* the documents the remote host can hold at the time of the download, given
\* the one d that upload copied there: d, or d with the record of one
\* continuation that ran there since
RemoteNow(d) ==
    {d} \cup
    (IF Has(d, "history_gmx") /\ d["history_gmx"][Len(d["history_gmx"])] # RemoteCall
     THEN { Set(d, "history_gmx", Append(d["history_gmx"], RemoteCall)) }
     ELSE {})

\* what the real rsync of download leaves in the job's directory: a run that
\* exits 0 has fetched the remote state.json over the local one; a failed run
\* (a partial transfer) may have
RealPull(rc) ==
    \/ /\ has_remote
       /\ has_state_json' = TRUE
       /\ state_json' \in RemoteNow(remote_json)
    \/ /\ rc # 0
       /\ UNCHANGED << has_state_json, state_json >>

\* lines 289-294: the prompt and the real transfer, whose status is not read
DownloadTransfer ==
    /\ UNCHANGED clustervars
    /\ pc = "dl_confirm"
    /\ \E ans \in Answers :
        IF sure \/ Proceed(ans)
          THEN \E rc \in {0, 1} :
                /\ returncode' = rc
                /\ log' = log \o (IF sure THEN << >> ELSE << Answered("yes", ans) >>)
                              \o << Event("real", rc) >>
                /\ RealPull(rc)
          ELSE /\ log' = Append(log, Answered("no", ans))
               /\ UNCHANGED << returncode, has_state_json, state_json >>
    /\ pc' = "dl_merge"
    /\ UNCHANGED << has_remote, remote_json, dirs, files, uploads_txt, now,
                    amx_state, state_merge, op, sure, bulk, exitcode, pre_has,
                    pre_json, ops, clean >>

\* line 306: the record of the pull
PullRecord(destination) == [from |-> destination, to |-> "here", when |-> MakeTimestamp]

\* line 304: the fetched document has an upload history of its own
MergeConflict(fetched) == Has(fetched, "upload_history")

\* lines 299-306: the local variable state, the fetched document with the
\* merged record and history and the record of the pull
MergedDocument(fetched, merge) ==
    LET with_upload == IF Has(fetched, "upload") THEN fetched
                       ELSE Set(fetched, "upload", merge.upload)
    IN  Set(with_upload, "upload_history",
            Append(merge.upload_history, PullRecord(amx_state["upload"].to)))

\* amx.state after line 306: the append reaches amx.state's own list when
\* state_merge['upload_history'] is that list, and a fresh list otherwise
AfterAppend(st, merge) ==
    IF Has(st, "upload_history")
      THEN Set(st, "upload_history",
               Append(merge.upload_history, PullRecord(st["upload"].to)))
      ELSE st

\* lines 295-307 and 308-314: the merge, and statesave(amx.state)
DownloadMerge ==
    /\ UNCHANGED clustervars
    /\ pc = "dl_merge"
    /\ IF has_state_json
         THEN IF MergeConflict(state_json)
                THEN /\ Finish(1)
                     /\ UNCHANGED << amx_state, has_state_json, state_json, log >>
                ELSE /\ amx_state' = AfterAppend(amx_state, state_merge)
                     /\ StateSave(amx_state')
                     /\ log' = Append(log, Event("save", 0))
                     /\ Finish(0)
         ELSE /\ Finish(0)
              /\ UNCHANGED << amx_state, has_state_json, state_json, log >>
    /\ UNCHANGED << has_remote, remote_json, dirs, files, uploads_txt, now,
                    state_merge, op, sure, bulk, returncode, pre_has, pre_json, ops, clean >>

-----------------------------------------------------------------------------
(* hardstart *)

\* re.match('s\d+-.+',fn) and os.path.isdir(fn)
IsStepDir(dn) == dn \in StepDirs /\ dn \in DOMAIN dirs

\* the test of line 574 left out
NeverInitialized == FALSE

\* line 574: os.path.isfile('state.json')
AlreadyInitialized == has_state_json

\* lines 582-589: the reconstructed document
FreshState(here, cpt, tpr) ==
    ("here" :> here) @@ ("gmxpaths" :> GmxPaths)
        @@ ("history_gmx" :> << [call |-> "mdrun", flags |-> Flags(tpr, cpt)] >>)

\* hardstart with the document written as soon as it is built (line 583),
\* ahead of the search for the checkpoint and the topology
HardstartPartial ==
    /\ Start("hardstart", FALSE, FALSE)
    /\ amx_state' = EmptyDoc
    /\ state_merge' = NoMerge
    /\ log' = << >>
    /\ UNCHANGED << has_remote, remote_json, dirs, files, uploads_txt, now >>
    /\ LET dns == { dn \in DOMAIN dirs : IsStepDir(dn) }
       IN  IF AlreadyInitialized \/ dns = {}
             THEN Finish(1) /\ UNCHANGED << has_state_json, state_json >>
             ELSE \E dn \in Latest(dns, dirs) :
                    LET here == JoinSlash(dn)
                        cpts == PartFiles(here, "cpt")
                        tprs == PartFiles(here, "tpr")
                        partial == ("here" :> here) @@ ("gmxpaths" :> GmxPaths)
                            @@ ("history_gmx" :> << [call |-> "mdrun", flags |-> << >>] >>)
                    IN  IF cpts = {} \/ tprs = {}
                          THEN StateSave(partial) /\ Finish(1)
                          ELSE \E cpt \in Latest(cpts, files), tpr \in Latest(tprs, files) :
                                 /\ StateSave(FreshState(here, cpt[2], tpr[2]))
                                 /\ Finish(0)

\* lines 574-590: the command fails when state.json is here, when no step
\* directory is found (dns[-1]) and when a suffix has no part-numbered file
Hardstart ==
    /\ Start("hardstart", FALSE, FALSE)
    /\ amx_state' = EmptyDoc
    /\ state_merge' = NoMerge
    /\ log' = << >>
    /\ UNCHANGED << has_remote, remote_json, dirs, files, uploads_txt, now >>
    /\ LET dns == { dn \in DOMAIN dirs : IsStepDir(dn) }
           fail == Finish(1) /\ UNCHANGED << has_state_json, state_json >>
       IN  IF AlreadyInitialized \/ dns = {}
             THEN fail
             ELSE \E dn \in Latest(dns, dirs) :
                    LET here == JoinSlash(dn)
                        cpts == PartFiles(here, "cpt")
                        tprs == PartFiles(here, "tpr")
                    IN  IF cpts = {} \/ tprs = {}
                          THEN fail
                          ELSE \E cpt \in Latest(cpts, files), tpr \in Latest(tprs, files) :
                                 /\ StateSave(FreshState(here, cpt[2], tpr[2]))
                                 /\ Finish(0)

-----------------------------------------------------------------------------
(* The clock *)

Tick ==
    /\ UNCHANGED clustervars
    /\ pc = "idle"
    /\ now < MaxTime
    /\ now' = now + 1
    /\ UNCHANGED << has_state_json, state_json, has_remote, remote_json, dirs,
                    files, uploads_txt, amx_state, state_merge, pc, op, sure,
                    bulk, returncode, exitcode, pre_has, pre_json, log, ops, clean >>

-----------------------------------------------------------------------------
(* The initial states *)

AllDirs == StepDirs \cup {"inputs"}

\* modification times: two values give either order of two directories, and
\* the tie
Mtimes == {1, 2}

\* the directories of the root: any set of step directories with any
\* modification times, and a directory that is no step and is the newest
DirConfigs ==
    { ("inputs" :> 2) @@ d : d \in UNION { [D -> Mtimes] : D \in SUBSET StepDirs } }

\* what a step directory can hold: a checkpoint and a topology that is not
\* part-numbered; two checkpoints, either one the newer, and a topology
CptLayouts ==
    { ("md.part0001.cpt" :> 1) @@ ("topol.tpr" :> 1),
      ("md.part0001.cpt" :> 1) @@ ("md.part0002.cpt" :> 2) @@ ("md.part0001.tpr" :> 1),
      ("md.part0001.cpt" :> 2) @@ ("md.part0002.cpt" :> 1) @@ ("md.part0001.tpr" :> 1) }

\* the layouts of a later step: two checkpoints and a topology
NewerLayouts ==
    { ("md.part0001.cpt" :> 1) @@ ("md.part0002.cpt" :> 2) @@ ("md.part0001.tpr" :> 1) }

\* and also: nothing; a checkpoint alone; two checkpoints of one age
Layouts ==
    CptLayouts \cup
    { << >>,
      ("md.part0001.cpt" :> 1),
      ("md.part0001.cpt" :> 1) @@ ("md.part0002.cpt" :> 1) @@ ("md.part0001.tpr" :> 1) }

\* the files of directory here under layout l
InDir(here, l) == [p \in { << here, n >> : n \in DOMAIN l } |-> l[p[2]]]

AllRoot == { << Root, "makefile" >>, << Root, "config.py" >> }

RootConfigs == { [p \in AllRoot |-> 1], [p \in { << Root, "config.py" >> } |-> 1] }

\* a job that ran its first step: the document the command layer wrote
JobState ==
    ("here" :> "s01-a/") @@ ("gmxpaths" :> GmxPaths)
        @@ ("history_gmx" :>
              << [call |-> "grompp", flags |-> ("-o" :> "md.part0001.tpr")],
                 [call |-> "mdrun",
                  flags |-> Flags("md.part0001.tpr", "md.part0001.cpt")] >>)

Init ==
    /\ \/ /\ has_state_json = FALSE
          /\ state_json = EmptyDoc
          /\ dirs \in DirConfigs
          /\ \E l1 \in CptLayouts, l2 \in NewerLayouts, r \in {[p \in AllRoot |-> 1]} :
                files = r @@ (IF "s01-a" \in DOMAIN dirs THEN InDir("s01-a/", l1) ELSE << >>)
                          @@ (IF "s02-b" \in DOMAIN dirs THEN InDir("s02-b/", l2) ELSE << >>)
       \/ /\ has_state_json = TRUE
          /\ state_json = JobState
          /\ dirs = ("s01-a" :> 1)
          /\ \E l1 \in Layouts, r \in RootConfigs : files = r @@ InDir("s01-a/", l1)
    /\ has_remote = FALSE
    /\ remote_json = EmptyDoc
    /\ uploads_txt = {}
    /\ now = 0
    /\ amx_state = EmptyDoc
    /\ state_merge = NoMerge
    /\ pc = "idle"
    /\ op = "none"
    /\ sure = FALSE
    /\ bulk = FALSE
    /\ returncode = -1
    /\ exitcode = 0
    /\ pre_has = FALSE
    /\ pre_json = EmptyDoc
    /\ log = << >>
    /\ ops = 0
    /\ clean = TRUE
    /\ mc = << >>
    /\ overwrite = TRUE
    /\ content = << >>
    /\ text = << >>
    /\ settings = << >>
    /\ order = << >>

Next ==
    \/ \E s \in BOOLEAN, b \in BOOLEAN : UploadStart(s, b)
    \/ UploadDryRun
    \/ UploadTransfer
    \/ UploadRecord
    \/ UploadHistory
    \/ \E s \in BOOLEAN : DownloadStart(s)
    \/ DownloadDryRun
    \/ DownloadTransfer
    \/ DownloadMerge
    \/ Hardstart
    \/ Tick

Spec == Init /\ [][Next]_vars

-----------------------------------------------------------------------------
(* Text and token substitution *)

\* A text is a sequence of pieces, each piece a string that no pattern
\* splits: "NPROCS" is the two pieces "N" and "PROCS", so that the pattern
\* PROCS is found inside it.

\* re.M, which cluster passes to re.sub in the place of count
ReM == 8

\* s begins with pat
StartsWith(s, pat) == Len(pat) <= Len(s) /\ SubSeq(s, 1, Len(pat)) = pat

\* re.sub scanning s from the left with left replacements still allowed
\* (-1: any number)
RECURSIVE ReSubFrom(_, _, _, _)
ReSubFrom(pat, repl, s, left) ==
    IF s = << >> THEN << >>
    ELSE IF left # 0 /\ StartsWith(s, pat)
         THEN repl \o ReSubFrom(pat, repl, SubSeq(s, Len(pat) + 1, Len(s)),
                                IF left = -1 THEN -1 ELSE left - 1)
         ELSE << Head(s) >> \o ReSubFrom(pat, repl, Tail(s), left)

\* re.sub(pat,repl,s,count): every occurrence of pat that overlaps no earlier
\* one is replaced; a count of 0 replaces all of them
ReSub(pat, repl, s, count) == ReSubFrom(pat, repl, s, IF count = 0 THEN -1 ELSE count)

\* key.upper() for the keys of the model
Upper(key) ==
    CASE key = "cluster_header" -> << "CLUSTER_HEADER" >>
      [] key = "walltime" -> << "WALLTIME" >>
      [] key = "nprocs" -> << "N", "PROCS" >>
      [] key = "procs" -> << "PROCS" >>
      [] key = "ppn" -> << "PPN" >>
      [] key = "nnodes" -> << "NNODES" >>
      [] key = "modules" -> << "MODULES" >>
      [] key = "mdrun_command" -> << "MDRUN", "_COMMAND" >>
      [] key = "until" -> << "UNTIL" >>
      [] key = "extend" -> << "EXTEND" >>
      [] key = "maxhours" -> << "MAXHOURS" >>
      [] key = "tpbconv" -> << "TPBCONV" >>
      [] key = "mdrun" -> << "MDRUN" >>
      [] key = "jobname" -> << "JOBNAME" >>
      [] key = "mode" -> << "MODE" >>

Digit(d) == << "0", "1", "2", "3", "4", "5", "6", "7", "8", "9" >>[d + 1]

\* str(n) of a natural number, piece by piece
RECURSIVE Decimal(_)
Decimal(n) == IF n < 10 THEN << Digit(n) >> ELSE Decimal(n \div 10) \o << Digit(n % 10) >>

\* the keys whose values are numbers, and the keys whose values are texts
IntKeys == {"walltime", "nprocs", "procs", "ppn", "nnodes", "until", "extend", "maxhours"}
TextKeys == {"cluster_header", "modules"}

\* str(val) for the value val of key
Str(key, val) ==
    IF key \in IntKeys THEN Decimal(val)
    ELSE IF key \in TextKeys THEN val
    ELSE << val >>

\* for key,val in table.items(): head = re.sub(key.upper(),str(val),head,count)
\* with the items in the order keys
RECURSIVE Substitute(_, _, _, _)
Substitute(head, table, keys, count) ==
    IF keys = << >> THEN head
    ELSE Substitute(ReSub(Upper(Head(keys)), Str(Head(keys), table[Head(keys)]), head, count),
                    table, Tail(keys), count)

-----------------------------------------------------------------------------
(* cluster *)

ClusterHeaderFn == << Root, "cluster-header.sh" >>

ScriptFn == "script-continue.sh"

ClusterContinueFn == "cluster-continue.sh"

\* os.path.basename(os.getcwd())
Jobname == "job"

\* a file of text: a head of pieces, then the lines of at most one script
TextFile(head, body, mode) == [head |-> head, body |-> body, mode |-> mode]

\* a script: whether it begins with #!/bin/bash, whether it still holds the
\* line #---SETTINGS OVERRIDES HERE, and the settings written in its place
ScriptLines(run, bang, marker, sett) ==
    [run |-> run, bang |-> bang, marker |-> marker, settings |-> sett]

\* what write_continue_script leaves at the path it returns
DefaultScript == ScriptLines("continue", TRUE, TRUE, << >>)

\* open(p,'w') creates p with the default mode and keeps the mode of an
\* existing p
ModeOf(c, p) == IF p \in DOMAIN c THEN c[p].mode ELSE "rw"

\* interpret_walltimes(walltime)['maxhours'] for a count of hours
InterpretWalltimes(walltime) == [maxhours |-> walltime]

MaxHoursUnset(m) == InterpretWalltimes(Get(m, "walltime", 0))["maxhours"]

MaxHours(m) == InterpretWalltimes(Get(m, "walltime", 24))["maxhours"]

\* neither branch of the process count raises KeyError
CanNProcs(m) == Has(m, "nprocs") \/ (Has(m, "ppn") /\ Has(m, "nnodes"))

NProcsOneFactor(m) == IF Has(m, "ppn") THEN m["ppn"] ELSE m["nprocs"]

NProcs(m) == IF Has(m, "nprocs") THEN m["nprocs"] ELSE m["ppn"] * m["nnodes"]

\* gmxpaths after the override by mdrun_command
GmxPathsOf(st, m) ==
    IF Has(m, "mdrun_command")
    THEN [st["gmxpaths"] EXCEPT !.mdrun = m["mdrun_command"]]
    ELSE st["gmxpaths"]

\* the settings table of lines 379-394
Settings(m, gmxpaths) ==
    ("maxhours" :> MaxHours(m)) @@ ("tpbconv" :> gmxpaths.tpbconv)
        @@ ("mdrun" :> gmxpaths.mdrun) @@ ("jobname" :> Jobname)
        @@ ("nprocs" :> NProcs(m))
        @@ (IF Has(m, "extend") THEN ("extend" :> m["extend"]) ELSE << >>)
        @@ (IF Has(m, "until") THEN ("until" :> m["until"]) @@ ("mode" :> "until") ELSE << >>)

\* the order in which the keys enter the settings table
SettingsOrder(sett) ==
    SelectSeq(<< "maxhours", "tpbconv", "mdrun", "jobname", "nprocs", "extend", "until", "mode" >>,
              LAMBDA k : k \in DOMAIN sett)

\* for m in need_modules: head += "module load %s\n"%m
RECURSIVE ModuleLines(_)
ModuleLines(ms) ==
    IF ms = << >> THEN << >>
    ELSE << "module load ", Head(ms), "\n" >> \o ModuleLines(Tail(ms))

\* re.sub('#---SETTINGS OVERRIDES HERE$',setting_text,x) over the lines
Rewrite(b, sett) ==
    IF b.marker THEN [b EXCEPT !.marker = FALSE, !.settings = sett] ELSE b

\* re.sub('#!/bin/bash\n','',continue_script)
StripBang(b) == [b EXCEPT !.bang = FALSE]

\* lines 340-358: the header; the hostname only selects the machine
\* configuration
ClusterHeader(ow) ==
    /\ pc = "idle"
    /\ ops < MaxOps
    /\ ops' = ops + 1
    /\ op' = "cluster"
    /\ overwrite' = ow
    /\ amx_state' = LoadState
    /\ pre_has' = has_state_json
    /\ pre_json' = state_json
    /\ settings' = << >>
    /\ IF ~ Has(mc, "cluster_header")
       THEN /\ Finish(1)
            /\ UNCHANGED << content, files, text >>
       ELSE LET head == Substitute(mc["cluster_header"], mc, order, 0)
            IN  /\ text' = head
                /\ content' = Set(content, ClusterHeaderFn,
                                  TextFile(head, << >>, ModeOf(content, ClusterHeaderFn)))
                /\ files' = Set(files, ClusterHeaderFn, now)
                /\ Enter("cl_continue")
    /\ UNCHANGED << has_state_json, state_json, has_remote, remote_json, dirs,
                    uploads_txt, now, state_merge, sure, bulk, returncode, log,
                    clean, mc, order >>

\* lines 360-413: the continuation script and the submission script
ClusterContinue ==
    /\ pc = "cl_continue"
    /\ LET st == amx_state
           last_step == Has(st, "here") /\ st["here"] # ""
           here == st["here"]
           gmxpaths == GmxPathsOf(st, mc)
           regenerate == ~ Has(st, "continuation_script") \/ overwrite
           script_continue_fn ==
               IF regenerate THEN << here, ScriptFn >>
               ELSE << here, st["continuation_script"] >>
           \* after write_continue_script
           content1 ==
               IF regenerate
               THEN Set(content, script_continue_fn,
                        TextFile(<< >>, << DefaultScript >>, ModeOf(content, script_continue_fn)))
               ELSE content
           files1 == IF regenerate THEN Set(files, script_continue_fn, now) ELSE files
       IN  IF ~ last_step
           THEN /\ Enter("cl_scripts")
                /\ UNCHANGED << content, files, text, settings >>
           ELSE IF script_continue_fn \notin DOMAIN content1
           THEN /\ Finish(1)
                /\ UNCHANGED << content, files, text, settings >>
           ELSE IF ~ CanNProcs(mc)
           THEN /\ Finish(1)
                /\ content' = content1
                /\ files' = files1
                /\ UNCHANGED << text, settings >>
           ELSE LET sett == Settings(mc, gmxpaths)
                    head1 == text \o ModuleLines(Get(mc, "modules", << >>))
                    lines == Rewrite(content1[script_continue_fn].body[1], sett)
                    cont_fn == << here, ScriptFn >>
                    cluster_continue == << here, ClusterContinueFn >>
                    head2 == Substitute(head1, sett, SettingsOrder(sett), ReM)
                    content2 == Set(content1, cont_fn, TextFile(<< >>, << lines >>, "rwx"))
                IN  /\ settings' = sett
                    /\ text' = head2
                    /\ content' = Set(content2, cluster_continue,
                                      TextFile(head2, << StripBang(lines) >>,
                                               ModeOf(content2, cluster_continue)))
                    /\ files' = Set(Set(files1, cont_fn, now), cluster_continue, now)
                    /\ Enter("cl_scripts")
    /\ UNCHANGED << has_state_json, state_json, has_remote, remote_json, dirs,
                    uploads_txt, now, amx_state, state_merge, op, sure, bulk,
                    returncode, pre_has, pre_json, log, ops, clean, mc,
                    overwrite, order >>

PyScript == "script-protein.py"

ClusterPyFn == << Root, "cluster-protein.sh" >>

\* lines 415-423: one submission script for each python script of the root
ClusterScripts ==
    /\ pc = "cl_scripts"
    /\ IF IsFile(<< Root, PyScript >>)
       THEN LET header == content[ClusterHeaderFn].head
            IN  /\ content' = Set(content, ClusterPyFn,
                                  TextFile(header \o << "\n" >>,
                                           << ScriptLines("python script-protein.py &> log-protein",
                                                          FALSE, FALSE, << >>) >>,
                                           ModeOf(content, ClusterPyFn)))
                /\ files' = Set(files, ClusterPyFn, now)
       ELSE UNCHANGED << content, files >>
    /\ Finish(0)
    /\ UNCHANGED << has_state_json, state_json, has_remote, remote_json, dirs,
                    uploads_txt, now, amx_state, state_merge, op, sure, bulk,
                    returncode, pre_has, pre_json, log, ops, clean, mc,
                    overwrite, text, settings, order >>

-----------------------------------------------------------------------------
(* cluster: the initial states *)

\* a header template that names every token
Header ==
    << "#PBS -l nodes=", "NNODES", ":ppn=", "PPN", ",walltime=", "WALLTIME",
       ":00:00 -N ", "JOBNAME", "\n", "mpirun -np ", "N", "PROCS", " ",
       "MDRUN", "_COMMAND", " -maxh ", "MAXHOURS", "\n" >>

\* the machine configurations: every key there or not
MachineConfigs ==
    { h @@ w @@ np @@ pp @@ nn @@ md @@ mo @@ ex @@ un :
        h \in { << >>, ("cluster_header" :> Header) },
        w \in { << >>, ("walltime" :> 48) },
        np \in { << >>, ("nprocs" :> 6) },
        pp \in { << >>, ("ppn" :> 2), ("ppn" :> 16) },
        nn \in { << >>, ("nnodes" :> 4) },
        md \in { << >>, ("mdrun_command" :> "mpirun mdrun_mpi") },
        mo \in { << >>, ("modules" :> << "gromacs" >>) },
        ex \in { << >>, ("extend" :> 50) },
        un \in { << >>, ("until" :> 100) } }

\* the order in which the keys enter the machine configuration
ConfigOrder(m) ==
    SelectSeq(<< "cluster_header", "walltime", "nprocs", "ppn", "nnodes",
                 "mdrun_command", "modules", "extend", "until" >>,
              LAMBDA k : k \in DOMAIN m)

\* the state documents cluster can find: a job with a step, the same with
\* a continuation script of its own, a job with no step yet
ClusterStates ==
    { JobState, Set(JobState, "continuation_script", ScriptFn), ("gmxpaths" :> GmxPaths) }

\* scripts an earlier build left behind
OldHeader == TextFile(<< "#PBS old\n" >>, << >>, "rw")
OldTemplate == TextFile(<< >>, << DefaultScript >>, "rwx")
OldScript ==
    TextFile(<< >>, << ScriptLines("continue", TRUE, FALSE, ("nprocs" :> 1)) >>, "rwx")
OldClusterContinue ==
    TextFile(<< "#PBS old\n" >>, << ScriptLines("continue", FALSE, FALSE, ("nprocs" :> 1)) >>, "rw")

\* nothing; the continuation script of the command layer alone; all three
\* scripts of an earlier build, its continuation script rendered or not
OldContents ==
    { << >>,
      (<< "s01-a/", ScriptFn >> :> OldTemplate),
      (ClusterHeaderFn :> OldHeader) @@ (<< "s01-a/", ScriptFn >> :> OldTemplate)
          @@ (<< "s01-a/", ClusterContinueFn >> :> OldClusterContinue),
      (ClusterHeaderFn :> OldHeader) @@ (<< "s01-a/", ScriptFn >> :> OldScript)
          @@ (<< "s01-a/", ClusterContinueFn >> :> OldClusterContinue) }

InitCluster ==
    /\ has_state_json = TRUE
    /\ state_json \in ClusterStates
    /\ mc \in MachineConfigs
    /\ order = ConfigOrder(mc)
    /\ content \in OldContents
    /\ dirs = ("s01-a" :> 1)
    /\ \E py \in { << >>, (<< Root, PyScript >> :> 1) } :
          files = [p \in AllRoot |-> 1] @@ py @@ [p \in DOMAIN content |-> 1]
    /\ overwrite = TRUE
    /\ text = << >>
    /\ settings = << >>
    /\ has_remote = FALSE
    /\ remote_json = EmptyDoc
    /\ uploads_txt = {}
    /\ now = 0
    /\ amx_state = EmptyDoc
    /\ state_merge = NoMerge
    /\ pc = "idle"
    /\ op = "none"
    /\ sure = FALSE
    /\ bulk = FALSE
    /\ returncode = -1
    /\ exitcode = 0
    /\ pre_has = FALSE
    /\ pre_json = EmptyDoc
    /\ log = << >>
    /\ ops = 0
    /\ clean = TRUE

NextCluster ==
    \/ \E ow \in BOOLEAN : ClusterHeader(ow)
    \/ ClusterContinue
    \/ ClusterScripts

SpecCluster == InitCluster /\ [][NextCluster]_vars

-----------------------------------------------------------------------------
(* cluster: the token tables *)

\* header templates in which the token of one key lies inside another's
RenderHeaders ==
    { << "mpirun -np ", "N", "PROCS", "\n" >>,
      << "#PBS -l procs=", "PROCS", "\n", "mpirun -np ", "N", "PROCS", "\n" >>,
      << "#PBS -l ppn=", "PPN", "\n", "mpirun ", "MDRUN", "_COMMAND", "\n" >> }

\* the sequences that hold every element of S once
Orders(S) ==
    { f \in [1..Cardinality(S) -> S] : \A i, j \in 1..Cardinality(S) : f[i] = f[j] => i = j }

\* machine configurations with a header and with keys of which one is a
\* part of another
RenderConfigs ==
    { ("cluster_header" :> h) @@ np @@ pr @@ pp @@ md :
        h \in RenderHeaders,
        np \in { << >>, ("nprocs" :> 64) },
        pr \in { << >>, ("procs" :> 4) },
        pp \in { << >>, ("ppn" :> 16) },
        md \in { << >>, ("mdrun_command" :> "mpirun mdrun_mpi") } }

\* cluster on a job with a step and no scripts, the machine configuration
\* iterating in any order
InitRender ==
    /\ has_state_json = TRUE
    /\ state_json = JobState
    /\ mc \in RenderConfigs
    /\ order \in Orders(DOMAIN mc)
    /\ content = << >>
    /\ dirs = ("s01-a" :> 1)
    /\ files = [p \in AllRoot |-> 1]
    /\ overwrite = TRUE
    /\ text = << >>
    /\ settings = << >>
    /\ has_remote = FALSE
    /\ remote_json = EmptyDoc
    /\ uploads_txt = {}
    /\ now = 0
    /\ amx_state = EmptyDoc
    /\ state_merge = NoMerge
    /\ pc = "idle"
    /\ op = "none"
    /\ sure = FALSE
    /\ bulk = FALSE
    /\ returncode = -1
    /\ exitcode = 0
    /\ pre_has = FALSE
    /\ pre_json = EmptyDoc
    /\ log = << >>
    /\ ops = 0
    /\ clean = TRUE

SpecRender == InitRender /\ [][NextCluster]_vars

-----------------------------------------------------------------------------
(* Properties *)

\* the upload record and the upload history of a document, each as a
\* sequence that is empty when the key is absent
UploadFields(d) ==
    [upload |-> IF Has(d, "upload") THEN << d["upload"] >> ELSE << >>,
     upload_history |-> IF Has(d, "upload_history") THEN << d["upload_history"] >> ELSE << >>]

\* the processes the running command has started
Processes == Logged("dry") \cup Logged("real")

\* the command name has ended
Ended(name) == op = name /\ pc = "idle"

\* the last process upload started has exited nonzero and no other follows
LastTransferFailed ==
    /\ op = "upload"
    /\ pc \in {"up_record", "up_history", "idle"}
    /\ returncode > 0

\* C1: when the last transfer process that upload runs exits with a nonzero
\* status, upload writes no record, ends with exit status 1, and the upload
\* record and the upload history in state.json are what they were before
\* the call.
C1_FailedUploadLeavesHistory ==
    LastTransferFailed =>
        /\ pc # "up_history"
        /\ pc = "idle" => exitcode = 1
        /\ UploadFields(state_json) = UploadFields(pre_json)

\* an upload has ended whose real transfer exited nonzero
C1_Witness ==
    /\ Ended("upload")
    /\ \E i \in Logged("real") : log[i].rc = 1
    /\ exitcode = 1

\* C2: upload writes an upload record or a history entry only after a real
\* transfer has run and has exited with status zero.
C2_RecordOnlyAfterRealSuccess ==
    (op = "upload" /\ UploadFields(state_json) # UploadFields(pre_json))
        => \E i \in Logged("real") : log[i].rc = 0

\* the running download failed: its dry run or its real pull exited nonzero,
\* or it has ended without a real pull
DownloadFailed ==
    \/ \E i \in Processes : log[i].rc # 0
    \/ Logged("real") = {}

\* the running command saved the document after its i-th step
SavedAfter(i) == \E j \in Logged("save") : j > i

\* C3: a download on a state with an upload record whose dry run or real
\* pull exits nonzero, or that runs no real pull, ends with a nonzero exit
\* status, appends no pull record and saves no document.
C3_FailedDownloadExitsNonzero ==
    (Ended("download") /\ pre_has /\ Has(pre_json, "upload") /\ DownloadFailed)
        => /\ exitcode # 0
           /\ \A i \in Processes : ~ SavedAfter(i)
           /\ has_state_json /\ Has(state_json, "upload_history")
                => \A k \in 1..Len(state_json["upload_history"]) :
                      "from" \notin DOMAIN state_json["upload_history"][k]
                        \/ k <= Len(Get(pre_json, "upload_history", << >>))

\* the document the running command found has no upload record
NoUploadBefore == ~ pre_has \/ ~ Has(pre_json, "upload")

\* C4: with no upload record in the state document, download fails before it
\* starts a process and before it writes the document, the serial included,
\* and state.json is unchanged.
C4_NoPriorUploadFailsFirst ==
    (op = "download" /\ NoUploadBefore)
        => /\ pc = "idle"
           /\ exitcode = 1
           /\ log = << >>
           /\ has_state_json = pre_has
           /\ state_json = pre_json

\* a download has ended on a document with neither upload record nor serial
C4_Witness ==
    /\ Ended("download")
    /\ pre_has
    /\ NoUploadBefore
    /\ NeedsSerial(pre_json)
    /\ exitcode = 1

\* C5: a download on a document with a serial, an upload record and the
\* history h of successful uploads, whose pull succeeds and leaves a state document, ends
\* with exit status 0 and the history h followed by one pull entry.
C5_DownloadAppendsOnePull ==
    (/\ Ended("download")
     /\ clean
     /\ pre_has /\ Has(pre_json, "upload") /\ Has(pre_json, "upload_history")
     /\ ~ NeedsSerial(pre_json)
     /\ \E i \in Logged("real") : log[i].rc = 0
     /\ has_state_json)
        => /\ exitcode = 0
           /\ Has(state_json, "upload_history")
           /\ Len(state_json["upload_history"]) = Len(pre_json["upload_history"]) + 1
           /\ SubSeq(state_json["upload_history"], 1, Len(pre_json["upload_history"]))
                = pre_json["upload_history"]
           /\ "from" \in DOMAIN state_json["upload_history"][Len(state_json["upload_history"])]

\* C6: in every document on disk, between the saves of one command too, an
\* upload record comes with a non-empty upload history whose last entry is
\* the upload record.
C6_RecordIsLastOfHistory ==
    (has_state_json /\ Has(state_json, "upload"))
        => /\ Has(state_json, "upload_history")
           /\ Len(state_json["upload_history"]) > 0
           /\ state_json["upload_history"][Len(state_json["upload_history"])]
                = state_json["upload"]

\* C7: once the document holds a serial, the value 0 included, a call of
\* upload or download (and of serial_number in it) leaves the serial as it is.
C7_SerialImmutable ==
    (op \in {"upload", "download"} /\ pre_has /\ Has(pre_json, "serial"))
        => /\ has_state_json
           /\ Has(state_json, "serial")
           /\ state_json["serial"] = pre_json["serial"]

\* the step directories hardstart can locate
Located == Latest({ dn \in DOMAIN dirs : IsStepDir(dn) }, dirs)

\* directory dn holds a part-numbered checkpoint and a part-numbered topology
Complete(dn) ==
    PartFiles(JoinSlash(dn), "cpt") # {} /\ PartFiles(JoinSlash(dn), "tpr") # {}

\* document d is one that hardstart writes: here, the tool paths and one
\* mdrun record
IsFresh(d) ==
    /\ DOMAIN d = {"here", "gmxpaths", "history_gmx"}
    /\ d["gmxpaths"] = GmxPaths
    /\ Len(d["history_gmx"]) = 1
    /\ d["history_gmx"][1].call = "mdrun"

\* C8: hardstart with a state document in place fails and leaves the
\* document as it is; with none in place and a checkpoint and a topology in
\* the located step directory it writes a document of here, the tool paths
\* and one mdrun record.
C8_HardstartRefusesOrWritesFresh ==
    Ended("hardstart") =>
        /\ pre_has => (exitcode = 1 /\ has_state_json /\ state_json = pre_json)
        /\ (~ pre_has /\ Located # {} /\ \A dn \in Located : Complete(dn))
              => (exitcode = 0 /\ has_state_json /\ IsFresh(state_json)
                    /\ \E dn \in Located : state_json["here"] = JoinSlash(dn))
        /\ (~ pre_has /\ has_state_json) => (exitcode = 0 /\ IsFresh(state_json))

\* a hardstart has refused to run over the document an earlier one wrote
C8_Witness ==
    /\ Ended("hardstart")
    /\ pre_has
    /\ exitcode = 1
    /\ IsFresh(state_json)

\* C9: when the located step directory lacks a part-numbered checkpoint or a
\* part-numbered topology, hardstart fails and no state document is on disk;
\* a document it does write names a located directory that holds both.
C9_MissingArtifactWritesNothing ==
    (Ended("hardstart") /\ ~ pre_has) =>
        /\ (\A dn \in Located : ~ Complete(dn)) => (exitcode = 1 /\ ~ has_state_json)
        /\ has_state_json =>
              \E dn \in Located : Complete(dn) /\ state_json["here"] = JoinSlash(dn)

\* a hardstart has failed in a step directory that holds a part-numbered
\* checkpoint and no part-numbered topology
C9_Witness ==
    /\ Ended("hardstart")
    /\ ~ pre_has
    /\ Located # {}
    /\ \A dn \in Located :
          PartFiles(JoinSlash(dn), "cpt") # {} /\ PartFiles(JoinSlash(dn), "tpr") = {}
    /\ exitcode = 1
    /\ ~ has_state_json

\* a default path of upload's list that is not on disk
MissingDefault ==
    \E fn \in DefaultFns \ { << Root, "state.json" >> } : ~ IsFile(fn)

\* C10 as claimed: when a file of upload's list is missing, a default path
\* included, upload starts no transfer process.
C10_AnyMissingFileStopsUpload ==
    (op = "upload" /\ MissingDefault) => Processes = {}

\* the running upload could not read its step and last mdrun, or one of the
\* two files of the last mdrun is missing
MissingRestart ==
    UploadReadable(amx_state) => \E fn \in RestartFns(amx_state) : fn \notin DOMAIN files

\* C10 as amended: when one of the two files that the last mdrun record names
\* with -s and -cpo is missing, upload fails before it starts a transfer
\* process, dry run or real, and writes no upload record.
C10_MissingRestartStopsUpload ==
    (op = "upload" /\ MissingRestart)
        => /\ pc = "idle"
           /\ exitcode = 1
           /\ Processes = {}
           /\ UploadFields(state_json) = UploadFields(pre_json)

\* an upload has failed for a missing checkpoint or topology of the last mdrun
C10_Witness ==
    /\ Ended("upload")
    /\ UploadReadable(amx_state)
    /\ \E fn \in RestartFns(amx_state) : fn \notin DOMAIN files
    /\ exitcode = 1

-----------------------------------------------------------------------------
(* Properties of cluster *)

\* the document names a current step, so that cluster builds a continuation
HasStep(st) == Has(st, "here") /\ st["here"] # ""

\* the file at path p is the same before and after the step
Untouched(p) ==
    /\ (p \in DOMAIN content') = (p \in DOMAIN content)
    /\ p \in DOMAIN content => content'[p] = content[p]
    /\ (p \in DOMAIN files') = (p \in DOMAIN files)
    /\ p \in DOMAIN files => files'[p] = files[p]

\* C11: when cluster builds the continuation of a step, the process count of
\* the settings is nprocs when the machine configuration has it and
\* ppn * nnodes otherwise; when the configuration has neither nprocs nor both
\* ppn and nnodes, cluster fails and the submission script
\* cluster-continue.sh of the step is not written.
C11_ProcessCount ==
    [][ (pc = "cl_continue" /\ HasStep(amx_state)) =>
          IF "nprocs" \in DOMAIN mc
          THEN pc' = "cl_scripts" => settings'["nprocs"] = mc["nprocs"]
          ELSE IF "ppn" \in DOMAIN mc /\ "nnodes" \in DOMAIN mc
          THEN pc' = "cl_scripts" => settings'["nprocs"] = mc["ppn"] * mc["nnodes"]
          ELSE /\ pc' = "idle"
               /\ exitcode' = 1
               /\ Untouched(<< amx_state["here"], ClusterContinueFn >>) ]_vars

\* a build with 16 processes on each of 4 nodes has come to 64 processes
C11_Witness ==
    /\ op = "cluster"
    /\ pc = "cl_scripts"
    /\ HasStep(amx_state)
    /\ "nprocs" \notin DOMAIN mc
    /\ "ppn" \in DOMAIN mc /\ mc["ppn"] = 16
    /\ "nnodes" \in DOMAIN mc /\ mc["nnodes"] = 4
    /\ settings["nprocs"] = 64

\* the header script, and the run script and the submission script of the
\* current step
ClusterPaths(st) ==
    {ClusterHeaderFn} \cup
    (IF HasStep(st)
     THEN { << st["here"], ScriptFn >>, << st["here"], ClusterContinueFn >> }
     ELSE {})

\* C12: cluster writes over an existing header script, run script or
\* submission script only when overwrite is requested: no step of a cluster
\* that runs without overwrite changes one of these files that exists.
C12_OverwriteOnlyOnRequest ==
    [][ (op' = "cluster" /\ ~ overwrite') =>
          \A p \in ClusterPaths(LoadState) :
              p \in DOMAIN content => (p \in DOMAIN content' /\ content'[p] = content[p]) ]_vars

\* cluster finds no header template, fails at once and writes nothing
NoHeaderFails ==
    (pc = "idle" /\ op' = "cluster" /\ "cluster_header" \notin DOMAIN mc) =>
        /\ pc' = "idle"
        /\ exitcode' = 1
        /\ content' = content
        /\ files' = files

\* the machine configuration has neither hours nor a continuation mode
NoWalltimePolicy == DOMAIN mc \cap {"walltime", "extend", "until"} = {}

\* the template of the continuation script can be read
TemplateReadable ==
    \/ overwrite
    \/ "continuation_script" \notin DOMAIN amx_state
    \/ << amx_state["here"], amx_state["continuation_script"] >> \in DOMAIN content

\* C13 as claimed: cluster fails before it writes a file when the machine
\* configuration has no cluster header, and the continuation build fails
\* when the configuration has neither a count of wall-time hours nor a
\* continuation mode (extend, until).
C13_MissingPolicyFails ==
    [][ /\ NoHeaderFails
        /\ (pc = "cl_continue" /\ HasStep(amx_state) /\ NoWalltimePolicy) =>
              (pc' = "idle" /\ exitcode' = 1) ]_vars

\* C13, amended: cluster fails before it writes a file when the machine
\* configuration has no cluster header; a continuation build whose
\* configuration has no walltime does not fail for that: it goes on with 24
\* hours, whether or not a continuation mode is given.
C13_NoHeaderFailsNoWalltimeIs24 ==
    [][ /\ NoHeaderFails
        /\ (/\ pc = "cl_continue"
            /\ HasStep(amx_state)
            /\ "walltime" \notin DOMAIN mc
            /\ TemplateReadable
            /\ "nprocs" \in DOMAIN mc \/ {"ppn", "nnodes"} \subseteq DOMAIN mc) =>
              (pc' = "cl_scripts" /\ settings'["maxhours"] = 24) ]_vars

\* a build with neither hours nor a continuation mode has gone through
C13_Witness ==
    /\ op = "cluster"
    /\ pc = "cl_scripts"
    /\ HasStep(amx_state)
    /\ NoWalltimePolicy
    /\ settings # << >>
    /\ settings["maxhours"] = 24

-----------------------------------------------------------------------------
(* Properties of upload and download, continued *)

\* the command waits for its first transfer process, which has not exited:
\* the state an interrupt of that transfer leaves behind
FirstTransferPending ==
    /\ pc \in {"up_dry", "up_confirm", "dl_dry", "dl_confirm"}
    /\ Processes = {}

\* C14: in upload and in download no write of the state document comes
\* before the exit of the first transfer process, and while the command
\* waits for that process the persisted document is the one it found when
\* it was called, the serial included.
C14_NoWriteBeforeFirstTransfer ==
    op \in {"upload", "download"} =>
        /\ \A i \in Logged("save") : \E j \in Processes : j < i
        /\ FirstTransferPending =>
              (has_state_json = pre_has /\ state_json = pre_json)

\* C15: when download ends well and there is a state document after the
\* transfer, the document it leaves is the fetched one, with its own here,
\* command history and other fields, to which the held upload record and
\* history and the record of the pull are added (stated for a download that
\* found a serial and drew none).
C15_PersistsFetchedDocument ==
    [][ (/\ op = "download"
         /\ pc = "dl_merge"
         /\ ~ NeedsSerial(pre_json)
         /\ has_state_json
         /\ pc' = "idle"
         /\ exitcode' = 0) =>
            state_json' = MergedDocument(state_json, state_merge) ]_vars

\* f is a prefix of h
IsPrefix(f, h) == Len(f) <= Len(h) /\ SubSeq(h, 1, Len(f)) = f

\* two histories that are both non-empty and of which neither continues the
\* other
Conflicting(f, h) == f # << >> /\ h # << >> /\ ~ IsPrefix(f, h) /\ ~ IsPrefix(h, f)

\* C16: a download whose pull exited 0 fails over the merge of the histories
\* only when the fetched history and the held history are both non-empty
\* and conflict; after uploads that all succeeded the fetched history is a
\* prefix of the held one, and download does not fail over it.
C16_ConflictOnlyWhenHistoriesDiffer ==
    [][ (/\ op = "download"
         /\ clean
         /\ pc = "dl_merge"
         /\ \E i \in Logged("real") : log[i].rc = 0
         /\ has_state_json
         /\ pc' = "idle"
         /\ exitcode' = 1) =>
            Conflicting(Get(state_json, "upload_history", << >>),
                        state_merge.upload_history) ]_vars

-----------------------------------------------------------------------------
(* Properties of hardstart, continued *)

\* the number that the digits of s<digits>-<name> spell
StepNumber(dn) ==
    CASE dn = "s01-a" -> 1
      [] dn = "s02-b" -> 2

\* the step directories of the greatest number and, among these, of the
\* latest modification time
GreatestSteps ==
    LET dns == { dn \in DOMAIN dirs : IsStepDir(dn) }
        top == { dn \in dns : \A other \in dns : StepNumber(other) <= StepNumber(dn) }
    IN  Latest(top, dirs)

\* C17: the step that hardstart takes as the current one is the directory
\* s<digits>-<name> of the greatest number, the modification time deciding
\* between equal numbers only; with no such directory hardstart fails and
\* writes no state document.
C17_HardstartTakesGreatestStep ==
    (Ended("hardstart") /\ ~ pre_has) =>
        /\ Located = {} => (exitcode = 1 /\ ~ has_state_json)
        /\ has_state_json =>
              \E dn \in GreatestSteps : state_json["here"] = JoinSlash(dn)

-----------------------------------------------------------------------------
(* Properties of the token substitution *)

\* len(key)
KeyLen(key) ==
    CASE key = "cluster_header" -> 14
      [] key = "mdrun_command" -> 13
      [] key = "nprocs" -> 6
      [] key = "procs" -> 5
      [] key = "ppn" -> 3

\* the orders of the keys of table m in which no key comes before a longer
\* one
LongerFirst(m) ==
    { o \in Orders(DOMAIN m) :
        \A i, j \in 1..Len(o) : i < j => KeyLen(o[i]) >= KeyLen(o[j]) }

\* C18: the header that cluster writes is the template with the keys of the
\* machine configuration applied longer first, so that the token of a longer
\* key (NPROCS) is replaced by that key's value and never rewritten through
\* a key that is a part of it (PROCS), in whatever order the configuration
\* iterates.
C18_LongerKeysFirst ==
    [][ (pc = "idle" /\ pc' = "cl_continue") =>
          \A o \in LongerFirst(mc) :
              text' = Substitute(mc["cluster_header"], mc, o, 0) ]_vars

-----------------------------------------------------------------------------
(* Properties of upload, continued *)

\* the answers that are empty or begin with n or N
Declining == {"", "n", "N", "no"}

\* the answers the prompts of the running command got
Prompted == Logged("yes") \cup Logged("no")

\* C19 as claimed: in upload a dry run always comes before the real
\* transfer, the real transfer starts only when sure is set or the prompt
\* was answered with a yes, and no answer that is empty or begins with n or
\* N starts it.
C19_DryRunAlwaysFirst ==
    op = "upload" =>
        /\ \A i \in Logged("real") :
              /\ \E j \in Logged("dry") : j < i
              /\ sure \/ \E j \in Logged("yes") : j < i
        /\ \A j \in Prompted : log[j].ans \in Declining => Logged("real") = {}

\* C19, amended: an upload that is not sure runs the dry run and then the
\* prompt before the real transfer, which starts only on an answer that is
\* not empty and does not begin with n or N; an upload that is sure starts
\* the real transfer with no dry run and no prompt.
C19_DryRunUnlessSure ==
    op = "upload" =>
        /\ \A i \in Logged("real") :
              IF sure
              THEN Logged("dry") = {} /\ Prompted = {}
              ELSE /\ \E j \in Logged("dry") : j < i
                   /\ \E j \in Logged("yes") : j < i /\ log[j].ans \notin Declining
        /\ \A j \in Prompted : log[j].ans \in Declining => Logged("real") = {}
        /\ sure => Logged("dry") = {}

\* an upload that was not sure has run the dry run, was answered yes and
\* has run the real transfer
C19_Witness ==
    /\ op = "upload"
    /\ ~ sure
    /\ Logged("dry") # {}
    /\ \E j \in Logged("yes") : log[j].ans = "y"
    /\ Logged("real") # {}

====
